---- MODULE Spec2Model ----
(***************************************************************************)
(* Conversions between proleptic-Gregorian calendar dates and Julian       *)
(* Dates: alternate_iauCal2jd / alternate_iauJd2cal (alternate-jd-algos.c) *)
(* and their terse variants (alternate-cal2jd.c, alternate-jd2cal.c).      *)
(*                                                                         *)
(* A C double is modelled as a pair <<i, f>> standing for i + f/Den, with  *)
(* i an integer and f in 0..Den-1 (floor and binary fraction), Den = 2^24. *)
(* Below 2^29 in magnitude every such value is a binary64 number, and      *)
(* sums and differences are exact; from 2^29 on binary64 keeps 23, then 22 *)
(* fraction bits, and a sum is rounded to the nearest such number, ties to *)
(* even (DRound).  A C int is a TLA+ integer of 32 bits; C's / and %       *)
(* truncate towards zero (CDiv, CRem).                                     *)
(***************************************************************************)
EXTENDS Integers, Sequences, FiniteSets, TLC

\* ------------------------------------------------------------------ bounds
\* Years -MaxYear..MaxYear are all converted, besides the landmark years.
MaxYear == 4
\* Number of binary fraction digits of a day that the Julian Dates drawn
\* around the landmark days carry.
FracBits == 2
\* Julian Dates within MaxOff days of each landmark day are converted.
MaxOff == 1

\* The fraction of a double is held in units of 2^-24 day.
Den == 2^24
\* The step of the fractions drawn: 2^-FracBits day.
Unit == Den \div 2^FracBits

\* A C local: x is evaluated once and F is applied to its value.
Local(x, F(_)) == CHOOSE r \in {F(v) : v \in {x}} : TRUE

\* A C loop: Body is applied to the record s of the loop's variables until
\* it sets s.left (the loop condition failed, or a break), and at most n
\* times; the n applications are run as two halves to keep evaluation shallow.
RECURSIVE Loop(_, _, _)
Loop(Body(_), s, n) ==
  IF n = 0 THEN s
  ELSE IF n = 1 THEN Body(s)
  ELSE Local(Loop(Body, s, n \div 2),
             LAMBDA h : IF h.left THEN h ELSE Loop(Body, h, n - (n \div 2)))

\* --------------------------------------------------------- C int arithmetic
abs(n) == IF n < 0 THEN -n ELSE n
\* C99 integer division truncates towards zero.
CDiv(a, b) == IF a >= 0 THEN a \div b ELSE -((-a) \div b)
\* C99 remainder has the sign of the dividend.
CRem(a, b) == IF a >= 0 THEN a % b ELSE -((-a) % b)

\* A C int has 32 bits.
INT_MAX == 2147483647
INT_MIN == -INT_MAX - 1
\* The int product a * b leaves the range of int (no product formed here is
\* INT_MIN itself).
IntMulOverflows(a, b) == b # 0 /\ abs(a) > INT_MAX \div abs(b)
\* The int sum a + b leaves the range of int.
IntAddOverflows(a, b) ==
  (b > 0 /\ a > INT_MAX - b) \/ (b < 0 /\ a < INT_MIN - b)

\* ------------------------------------------------------------- C doubles
Dbl(n) == <<n, 0>>                       \* int -> double conversion
FewBits == -(2^28)..(2^28 - 1)
\* The binary64 number nearest to x >= 0, ties to even: the numbers in
\* [2^29, 2^30) are the multiples of 2^-23, those in [2^30, 2^31) of 2^-22.
DRoundPos(x) ==
  LET u == IF x[1] < 2^29 THEN 1 ELSE IF x[1] < 2^30 THEN 2 ELSE 4
      q == x[2] \div u
      r == x[2] % u
      up == IF 2 * r < u THEN q ELSE IF 2 * r > u THEN q + 1 ELSE q + (q % 2)
  IN  IF up * u = Den THEN <<x[1] + 1, 0>> ELSE <<x[1], up * u>>
DRound(x) ==
  IF x[1] >= 0 THEN DRoundPos(x)
  ELSE LET m == DRoundPos(IF x[2] = 0 THEN <<-x[1], 0>> ELSE <<-x[1] - 1, Den - x[2]>>)
       IN  IF m[2] = 0 THEN <<-m[1], 0>> ELSE <<-m[1] - 1, Den - m[2]>>
\* a + b without rounding.
DExact(a, b) == <<a[1] + b[1] + ((a[2] + b[2]) \div Den), (a[2] + b[2]) % Den>>
\* Two numbers below 2^28 in magnitude have an exact sum.
DAdd(a, b) ==
  IF a[1] \in FewBits /\ b[1] \in FewBits THEN DExact(a, b)
                                         ELSE Local(DExact(a, b), DRound)
DNeg(a) == IF a[2] = 0 THEN <<-a[1], 0>> ELSE <<-a[1] - 1, Den - a[2]>>
DSub(a, b) == DAdd(a, DNeg(b))
DLe(a, b) == a[1] < b[1] \/ (a[1] = b[1] /\ a[2] <= b[2])
DLt(a, b) == a[1] < b[1] \/ (a[1] = b[1] /\ a[2] < b[2])
\* floor(a / n) for an int n > 0: the fraction of a cannot reach the next
\* multiple of n.
DFloorDiv(a, n) == a[1] \div n
\* The whole number nearest to a, halves upwards.
dint_nearest(a) == IF 2 * a[2] >= Den THEN a[1] + 1 ELSE a[1]

\* nearest whole number towards zero (sofam.h dint; modf's integer part).
dint(a) == IF a[1] >= 0 \/ a[2] = 0 THEN a[1] ELSE a[1] + 1

\* ------------------------------------------ constants, alternate-jd-algos.c
NORMAL_YEAR_LEN == 365
LEAP_YEAR_LEN == 366
MONTH_LEN_TABLE == <<31, 28, 31, 30, 31, 30, 31, 31, 30, 31, 30, 31>>
JAN_0_YEAR_0 == <<1721058, Den \div 2>>  \* 1721058.5
FULL_CYCLE_YEARS == 400
\* The cycle without its three century years that have no leap day.
FULL_CYCLE_DAYS_no_century == (3 * NORMAL_YEAR_LEN + LEAP_YEAR_LEN) * 25 * 4
FULL_CYCLE_DAYS == (3 * NORMAL_YEAR_LEN + LEAP_YEAR_LEN) * 25 * 4 - 3

\* ---------------------------------------------------------- calendar oracle
\* The rule without the 400-year exception.
is_leap_no_400(y) == CRem(y, 4) = 0 /\ CRem(y, 100) # 0

is_leap(y) ==
  LET is_century_year == (CRem(y, 100) = 0)
  IN  IF is_century_year THEN CRem(y, 400) = 0 ELSE CRem(y, 4) = 0

year_len(y) == IF is_leap(y) THEN LEAP_YEAR_LEN ELSE NORMAL_YEAR_LEN

\* The loop with y <= end_year: the end year is counted too.
days_in_complete_years_body_le(s) ==
  IF s.y <= s.end_year
    THEN [s EXCEPT !.result = s.result + year_len(s.y), !.y = s.y + 1]
    ELSE [s EXCEPT !.left = TRUE]

\* for(int y = start_year; y < end_year; ++y) { result += year_len(y); }
days_in_complete_years_body(s) ==
  IF s.y < s.end_year
    THEN [s EXCEPT !.result = s.result + year_len(s.y), !.y = s.y + 1]
    ELSE [s EXCEPT !.left = TRUE]

days_in_complete_years(start_year, end_year) ==
  Local([y |-> start_year, end_year |-> end_year, result |-> 0, left |-> FALSE],
        LAMBDA s0 :
          Loop(days_in_complete_years_body, s0,
               (IF s0.end_year > s0.y THEN s0.end_year - s0.y ELSE 0) + 1).result)

\* MONTH_LEN_TABLE[m - 1], the C table being 0-based.
month_len(y, m) ==
  LET length == MONTH_LEN_TABLE[(m - 1) + 1]
      has_leap_day == is_leap(y) /\ (m = 2)
  IN  IF has_leap_day THEN length + 1 ELSE length

\* for(int completed_month = 1; completed_month < m; ++completed_month)
days_from_jan0_body(s) ==
  IF s.completed_month < s.m
    THEN [s EXCEPT !.days_in_completed_months = @ + month_len(s.y, s.completed_month),
                   !.completed_month = s.completed_month + 1]
    ELSE [s EXCEPT !.left = TRUE]

days_from_jan0(y, m, d) ==
  Loop(days_from_jan0_body,
       [y |-> y, m |-> m, completed_month |-> 1, days_in_completed_months |-> 0,
        left |-> FALSE], 12).days_in_completed_months + d

\* The days elapsed instead of the days remaining.
days_remaining_in_month_elapsed(y, m, d) == d

days_remaining_in_month(y, m, d) ==
  LET length == month_len(y, m) IN length + 1 - d

\* for(int completed_month = 12; completed_month > m; --completed_month)
days_from_dec32_body(s) ==
  IF s.completed_month > s.m
    THEN [s EXCEPT !.days_in_completed_months = @ + month_len(s.y, s.completed_month),
                   !.completed_month = s.completed_month - 1]
    ELSE [s EXCEPT !.left = TRUE]

days_from_dec32(y, m, d) ==
  Loop(days_from_dec32_body,
       [y |-> y, m |-> m, completed_month |-> 12, days_in_completed_months |-> 0,
        left |-> FALSE], 12).days_in_completed_months
    + days_remaining_in_month(y, m, d)

\* ------------------------------------------------- Date -> Julian Date engine
\* The engines return the pair of doubles they store through djm0 and djm.
cal2jd_non_neg_years(iy, im, id) ==
  LET num_cycles == CDiv(iy, FULL_CYCLE_YEARS)
      full_cycles == num_cycles * FULL_CYCLE_DAYS
      remainder_years == days_in_complete_years(num_cycles * FULL_CYCLE_YEARS, iy)
      remainder_days == days_from_jan0(iy, im, id)
      jd == DAdd(JAN_0_YEAR_0, Dbl(full_cycles + remainder_years + remainder_days))
  IN  [djm0 |-> jd, djm |-> Dbl(0)]

\* The negative branch without its OVERHANG day.
cal2jd_neg_years_no_overhang(iy, im, id) ==
  LET y_biased == iy + 1
      num_cycles == CDiv(y_biased, FULL_CYCLE_YEARS)
      full_cycles == abs(num_cycles * FULL_CYCLE_DAYS)
      remainder_years == days_in_complete_years(y_biased, num_cycles * FULL_CYCLE_YEARS)
      remainder_days == days_from_dec32(iy, im, id)
      total == full_cycles + remainder_years + remainder_days
  IN  [djm0 |-> DSub(JAN_0_YEAR_0, Dbl(total)), djm |-> Dbl(0)]

cal2jd_neg_years(iy, im, id) ==
  LET y_biased == iy + 1
      num_cycles == CDiv(y_biased, FULL_CYCLE_YEARS)
      full_cycles == abs(num_cycles * FULL_CYCLE_DAYS)
      remainder_years == days_in_complete_years(y_biased, num_cycles * FULL_CYCLE_YEARS)
      remainder_days == days_from_dec32(iy, im, id)
      OVERHANG == 1
      total == full_cycles + remainder_years + remainder_days
      jd == DSub(DAdd(JAN_0_YEAR_0, Dbl(OVERHANG)), Dbl(total))
  IN  [djm0 |-> jd, djm |-> Dbl(0)]

\* Signed overflow in the int arithmetic of cal2jd_non_neg_years: the
\* products num_cycles * FULL_CYCLE_DAYS and num_cycles * FULL_CYCLE_YEARS
\* (the terms of jd are added as doubles).
cal2jd_non_neg_years_overflow(iy, im, id) ==
  LET num_cycles == CDiv(iy, FULL_CYCLE_YEARS)
  IN  \/ IntMulOverflows(num_cycles, FULL_CYCLE_DAYS)
      \/ IntMulOverflows(num_cycles, FULL_CYCLE_YEARS)

\* Signed overflow in the int arithmetic of cal2jd_neg_years: the products
\* and the int sum total.  The two remainders are at most one cycle and one
\* year, so the sum is only formed where full_cycles is that near INT_MAX.
cal2jd_neg_years_overflow(iy, im, id) ==
  LET y_biased == iy + 1
      num_cycles == CDiv(y_biased, FULL_CYCLE_YEARS)
  IN  \/ IntMulOverflows(num_cycles, FULL_CYCLE_DAYS)
      \/ IntMulOverflows(num_cycles, FULL_CYCLE_YEARS)
      \/ /\ abs(num_cycles * FULL_CYCLE_DAYS) > INT_MAX - (FULL_CYCLE_DAYS + LEAP_YEAR_LEN)
         /\ LET full_cycles == abs(num_cycles * FULL_CYCLE_DAYS)
                remainder_years ==
                  days_in_complete_years(y_biased, num_cycles * FULL_CYCLE_YEARS)
                remainder_days == days_from_dec32(iy, im, id)
            IN  \/ IntAddOverflows(full_cycles, remainder_years)
                \/ IntAddOverflows(full_cycles + remainder_years, remainder_days)

alternate_cal2jd_overflow(iy, im, id) ==
  IF iy >= 0 THEN cal2jd_non_neg_years_overflow(iy, im, id)
             ELSE cal2jd_neg_years_overflow(iy, im, id)

\* The arguments of the call of days_in_complete_years that the engine
\* chosen by alternate_cal2jd makes.
alternate_cal2jd_years_call(iy) ==
  IF iy >= 0
    THEN [start_year |-> CDiv(iy, FULL_CYCLE_YEARS) * FULL_CYCLE_YEARS,
          end_year |-> iy]
    ELSE [start_year |-> iy + 1,
          end_year |-> CDiv(iy + 1, FULL_CYCLE_YEARS) * FULL_CYCLE_YEARS]

alternate_cal2jd(iy, im, id) ==
  IF iy >= 0 THEN cal2jd_non_neg_years(iy, im, id)
             ELSE cal2jd_neg_years(iy, im, id)

\* ly without the century rule.
ly_no_century(iy, im) == IF (im = 2) /\ CRem(iy, 4) = 0 THEN 1 ELSE 0

\* ly = ((im == 2) && !(iy%4) && (iy%100 || !(iy%400)))
ly(iy, im) ==
  IF (im = 2) /\ CRem(iy, 4) = 0 /\ (CRem(iy, 100) # 0 \/ CRem(iy, 400) = 0)
    THEN 1 ELSE 0

\* The function returning on a bad day as it does on a bad month.
alternate_iauCal2jd_gated(iy, im, id, old0, old1) ==
  IF im < 1 \/ im > 12
    THEN [j |-> -2, djm0 |-> old0, djm |-> old1]
    ELSE IF (id < 1) \/ (id > MONTH_LEN_TABLE[(im - 1) + 1] + ly(iy, im))
      THEN [j |-> -3, djm0 |-> old0, djm |-> old1]
      ELSE Local(alternate_cal2jd(iy, im, id),
                 LAMBDA r : [j |-> 0, djm0 |-> r.djm0, djm |-> r.djm])

\* The call's status and what the caller's djm0, djm hold after it; old0 and
\* old1 are what they held before (an InvalidMonth return stores nothing).
alternate_iauCal2jd(iy, im, id, old0, old1) ==
  IF im < 1 \/ im > 12
    THEN [j |-> -2, djm0 |-> old0, djm |-> old1]
    ELSE LET j == IF (id < 1) \/ (id > MONTH_LEN_TABLE[(im - 1) + 1] + ly(iy, im))
                    THEN -3 ELSE 0
         IN  Local(alternate_cal2jd(iy, im, id),
                   LAMBDA r : [j |-> j, djm0 |-> r.djm0, djm |-> r.djm])

\* The engine is called, and so its int arithmetic done, for a valid month.
alternate_iauCal2jd_overflow(iy, im, id) ==
  ~(im < 1 \/ im > 12) /\ alternate_cal2jd_overflow(iy, im, id)

\* --------------------------------------------- constants, terse variants
\* alternate-cal2jd.c and alternate-jd2cal.c each declare their own copies of
\* SHORT_YR, LONG_YR, CYCLE_YEARS and MONTH_LEN, with the same values.
SHORT_YR == 365
LONG_YR == 366
CYCLE_YEARS == 400
MONTH_LEN == <<31, 28, 31, 30, 31, 30, 31, 31, 30, 31, 30, 31>>
terse_JAN_0_YEAR_0 == <<1721058, Den \div 2>>
JAN_1_YEAR_0 == DAdd(<<1721058, Den \div 2>>, Dbl(1))
CYCLE_DAYS ==
  SHORT_YR * CYCLE_YEARS + CDiv(CYCLE_YEARS, 4) - CDiv(CYCLE_YEARS, 100)
    + CDiv(CYCLE_YEARS, CYCLE_YEARS)
DAYS_IN_PRECEDING_MONTHS == <<0, 31, 59, 90, 120, 151, 181, 212, 243, 273, 304, 334>>

\* int is_leap = (y % 100 == 0) ? (y % 400 == 0) : (y % 4 == 0);
gregorian_is_leap(y) ==
  IF CRem(y, 100) = 0 THEN CRem(y, 400) = 0 ELSE CRem(y, 4) = 0

\* ------------------------------------- terse Date -> Julian Date engine
\* The completed years counted as y - 1 on both sides of year 0.
gregorian_cal_to_julian_date_symmetric(y, m, d) ==
  LET y_p == y - 1
      n366 == CDiv(y_p, 4) - CDiv(y_p, 100) + CDiv(y_p, CYCLE_YEARS)
      num_366yrs == IF y > 0 THEN n366 + 1 ELSE n366
      num_365yrs == y - num_366yrs
      res0 == Dbl(num_365yrs * SHORT_YR + num_366yrs * LONG_YR)
      res1 == DAdd(res0, Dbl(DAYS_IN_PRECEDING_MONTHS[(m - 1) + 1]))
      res2 == DAdd(res1, Dbl(IF gregorian_is_leap(y) /\ (m - 1) >= 2 THEN 1 ELSE 0))
      res3 == DAdd(res2, d)
      res == DAdd(res3, terse_JAN_0_YEAR_0)
  IN  [djm0 |-> res, djm |-> Dbl(0)]

gregorian_cal_to_julian_date(y, m, d) ==
  LET y_p == IF y >= 0 THEN y - 1 ELSE y
      n366 == CDiv(y_p, 4) - CDiv(y_p, 100) + CDiv(y_p, CYCLE_YEARS)
      num_366yrs == IF y > 0 THEN n366 + 1 ELSE n366
      num_365yrs == y - num_366yrs
      res0 == Dbl(num_365yrs * SHORT_YR + num_366yrs * LONG_YR)
      res1 == DAdd(res0, Dbl(DAYS_IN_PRECEDING_MONTHS[(m - 1) + 1]))
      res2 == DAdd(res1, Dbl(IF gregorian_is_leap(y) /\ (m - 1) >= 2 THEN 1 ELSE 0))
      res3 == DAdd(res2, d)
      res == DAdd(res3, terse_JAN_0_YEAR_0)
  IN  [djm0 |-> res, djm |-> Dbl(0)]

\* Signed overflow in the int arithmetic of gregorian_cal_to_julian_date:
\* num_365yrs * SHORT_YR + num_366yrs * LONG_YR is an int expression.
gregorian_cal_to_julian_date_overflow(y, m, d) ==
  LET y_p == IF y >= 0 THEN y - 1 ELSE y
      n366 == CDiv(y_p, 4) - CDiv(y_p, 100) + CDiv(y_p, CYCLE_YEARS)
      num_366yrs == IF y > 0 THEN n366 + 1 ELSE n366
      num_365yrs == y - num_366yrs
  IN  \/ IntMulOverflows(num_365yrs, SHORT_YR)
      \/ IntMulOverflows(num_366yrs, LONG_YR)
      \/ IntAddOverflows(num_365yrs * SHORT_YR, num_366yrs * LONG_YR)

terse_alternate_iauCal2jd_overflow(iy, im, id) ==
  ~(im < 1 \/ im > 12) /\ gregorian_cal_to_julian_date_overflow(iy, im, Dbl(id))

terse_alternate_iauCal2jd(iy, im, id, old0, old1) ==
  IF im < 1 \/ im > 12
    THEN [j |-> -2, djm0 |-> old0, djm |-> old1]
    ELSE LET j == IF (id < 1) \/ (id > MONTH_LEN[(im - 1) + 1] + ly(iy, im))
                    THEN -3 ELSE 0
         IN  Local(gregorian_cal_to_julian_date(iy, im, Dbl(id)),
                   LAMBDA r : [j |-> j, djm0 |-> r.djm0, djm |-> r.djm])

\* ------------------------------------------------- Julian Date -> Date engine
\* for(idx = 0; idx < FULL_CYCLE_YEARS; ++idx) { if (fits) {...} else break; }
non_neg_year_body(s) ==
  IF s.remainder_year_idx < FULL_CYCLE_YEARS
    THEN LET one_more_year == Dbl(year_len(s.year_full_cycles + s.remainder_year_idx))
         IN  IF DLe(DAdd(s.temp_target, one_more_year), s.target)
               THEN [s EXCEPT !.temp_target = DAdd(s.temp_target, one_more_year),
                              !.year = s.year + 1,
                              !.remainder_year_idx = s.remainder_year_idx + 1]
               ELSE [s EXCEPT !.left = TRUE]
    ELSE [s EXCEPT !.left = TRUE]

\* The loop with < for <=: a month is not left at the instant the next begins.
non_neg_month_body_lt(s) ==
  IF s.month_idx <= 12
    THEN LET one_more_month == Dbl(month_len(s.year, s.month_idx))
         IN  IF DLt(DAdd(s.temp_target, one_more_month), s.target)
               THEN [s EXCEPT !.temp_target = DAdd(s.temp_target, one_more_month),
                              !.month = s.month + 1,
                              !.month_idx = s.month_idx + 1]
               ELSE [s EXCEPT !.left = TRUE]
    ELSE [s EXCEPT !.left = TRUE]

\* The loop without its break: a month that does not fit is passed over.
non_neg_month_body_no_break(s) ==
  IF s.month_idx <= 12
    THEN LET one_more_month == Dbl(month_len(s.year, s.month_idx))
         IN  IF DLe(DAdd(s.temp_target, one_more_month), s.target)
               THEN [s EXCEPT !.temp_target = DAdd(s.temp_target, one_more_month),
                              !.month = s.month + 1,
                              !.month_idx = s.month_idx + 1]
               ELSE [s EXCEPT !.month_idx = s.month_idx + 1]
    ELSE [s EXCEPT !.left = TRUE]

\* for(month_idx = 1; month_idx <= 12; ++month_idx) { if (fits) {...} else break; }
non_neg_month_body(s) ==
  IF s.month_idx <= 12
    THEN LET one_more_month == Dbl(month_len(s.year, s.month_idx))
         IN  IF DLe(DAdd(s.temp_target, one_more_month), s.target)
               THEN [s EXCEPT !.temp_target = DAdd(s.temp_target, one_more_month),
                              !.month = s.month + 1,
                              !.month_idx = s.month_idx + 1]
               ELSE [s EXCEPT !.left = TRUE]
    ELSE [s EXCEPT !.left = TRUE]

jd2cal_non_neg_years(jd) ==
  Local(DSub(jd, DAdd(JAN_0_YEAR_0, Dbl(1))), LAMBDA target :
  Local(DFloorDiv(target, FULL_CYCLE_DAYS), LAMBDA num_full_cycles :
  Local(Loop(non_neg_year_body,
             [remainder_year_idx |-> 0,
              year_full_cycles |-> num_full_cycles * FULL_CYCLE_YEARS,
              year |-> num_full_cycles * FULL_CYCLE_YEARS,
              temp_target |-> Dbl(num_full_cycles * FULL_CYCLE_DAYS),
              target |-> target, left |-> FALSE],
             FULL_CYCLE_YEARS + 1), LAMBDA yl :
  Local(Loop(non_neg_month_body,
             [month_idx |-> 1, year |-> yl.year, month |-> 1,
              temp_target |-> yl.temp_target, target |-> target, left |-> FALSE],
             12 + 1), LAMBDA ml :
  Local(DAdd(DSub(target, ml.temp_target), Dbl(1)), LAMBDA days :
    [iy |-> yl.year, im |-> ml.month, id |-> dint(days),
     fd |-> DSub(days, Dbl(dint(days))),
     locals |-> [neg |-> FALSE, yl |-> yl, ml |-> ml]])))))

\* The loop with >= for >: a year is left at the instant it begins.
neg_year_body_ge(s) ==
  IF s.remainder_year_idx < FULL_CYCLE_YEARS
    THEN LET one_less_year == Dbl(year_len(s.year_full_cycles - s.remainder_year_idx))
         IN  IF DLe(s.target, DSub(s.temp_target, one_less_year))
               THEN [s EXCEPT !.temp_target = DSub(s.temp_target, one_less_year),
                              !.year = s.year - 1,
                              !.remainder_year_idx = s.remainder_year_idx + 1]
               ELSE [s EXCEPT !.left = TRUE]
    ELSE [s EXCEPT !.left = TRUE]

\* for(idx = 0; idx < FULL_CYCLE_YEARS; ++idx) { if (fits) {...} else break; }
neg_year_body(s) ==
  IF s.remainder_year_idx < FULL_CYCLE_YEARS
    THEN LET one_less_year == Dbl(year_len(s.year_full_cycles - s.remainder_year_idx))
         IN  IF DLt(s.target, DSub(s.temp_target, one_less_year))
               THEN [s EXCEPT !.temp_target = DSub(s.temp_target, one_less_year),
                              !.year = s.year - 1,
                              !.remainder_year_idx = s.remainder_year_idx + 1]
               ELSE [s EXCEPT !.left = TRUE]
    ELSE [s EXCEPT !.left = TRUE]

\* for(month_idx = 12; month_idx >= 1; --month_idx) { if (fits) {...} else break; }
neg_month_body(s) ==
  IF s.month_idx >= 1
    THEN LET one_less_month == Dbl(month_len(s.year, s.month_idx))
         IN  IF DLt(s.target, DSub(s.temp_target, one_less_month))
               THEN [s EXCEPT !.temp_target = DSub(s.temp_target, one_less_month),
                              !.month = s.month - 1,
                              !.month_idx = s.month_idx - 1]
               ELSE [s EXCEPT !.left = TRUE]
    ELSE [s EXCEPT !.left = TRUE]

jd2cal_neg_years(jd) ==
  Local(DSub(jd, DAdd(JAN_0_YEAR_0, Dbl(1))), LAMBDA target :
  Local(DFloorDiv(target, FULL_CYCLE_DAYS) + 1, LAMBDA num_full_cycles :
  Local(Loop(neg_year_body,
             [remainder_year_idx |-> 0,
              year_full_cycles |-> num_full_cycles * FULL_CYCLE_YEARS - 1,
              year |-> num_full_cycles * FULL_CYCLE_YEARS - 1,
              temp_target |-> Dbl(num_full_cycles * FULL_CYCLE_DAYS),
              target |-> target, left |-> FALSE],
             FULL_CYCLE_YEARS + 1), LAMBDA yl :
  Local(Loop(neg_month_body,
             [month_idx |-> 12, year |-> yl.year, month |-> 12,
              temp_target |-> yl.temp_target, target |-> target, left |-> FALSE],
             12 + 1), LAMBDA ml :
  Local(DSub(DAdd(Dbl(month_len(yl.year, ml.month) + 1), target), ml.temp_target),
        LAMBDA days :
    [iy |-> yl.year, im |-> ml.month, id |-> dint(days),
     fd |-> DSub(days, Dbl(dint(days))),
     locals |-> [neg |-> TRUE, yl |-> yl, ml |-> ml]])))))

\* Signed overflow in the int arithmetic of jd2cal_non_neg_years and of
\* jd2cal_neg_years: the cast of the floor-divided cycle count to int and its
\* products with FULL_CYCLE_YEARS and FULL_CYCLE_DAYS.  A double that the
\* model holds has a floor within int, so the cast is in range.
jd2cal_non_neg_years_overflow(jd) ==
  LET target == DSub(jd, DAdd(JAN_0_YEAR_0, Dbl(1)))
      num_full_cycles == DFloorDiv(target, FULL_CYCLE_DAYS)
  IN  \/ IntMulOverflows(num_full_cycles, FULL_CYCLE_YEARS)
      \/ IntMulOverflows(num_full_cycles, FULL_CYCLE_DAYS)

jd2cal_neg_years_overflow(jd) ==
  LET target == DSub(jd, DAdd(JAN_0_YEAR_0, Dbl(1)))
      num_full_cycles == DFloorDiv(target, FULL_CYCLE_DAYS) + 1
  IN  \/ IntMulOverflows(num_full_cycles, FULL_CYCLE_YEARS)
      \/ IntMulOverflows(num_full_cycles, FULL_CYCLE_DAYS)

alternate_jd2Cal_overflow(dj1, dj2) ==
  LET jan_1_year_0 == DAdd(JAN_0_YEAR_0, Dbl(1))
      jd == DAdd(dj1, dj2)
  IN  IF DLe(jan_1_year_0, jd) THEN jd2cal_non_neg_years_overflow(jd)
                               ELSE jd2cal_neg_years_overflow(jd)

\* The months m for which the engine that alternate_jd2Cal called looked up
\* MONTH_LEN_TABLE[m - 1], from the locals t it left: those of the month
\* loop's passes and, in jd2cal_neg_years, the month found, for the count of
\* the days.
alternate_jd2Cal_lookups(t) ==
  IF t.neg THEN {m \in 1..12 : m >= t.ml.month_idx} \cup {t.ml.month}
           ELSE {m \in 1..12 : m <= t.ml.month_idx}

\* The sum taken as if the second component were a whole number of days.
alternate_jd2Cal_whole_dj2(dj1, dj2) ==
  LET jan_1_year_0 == DAdd(JAN_0_YEAR_0, Dbl(1))
      jd == DAdd(dj1, Dbl(dint(dj2)))
  IN  IF DLe(jan_1_year_0, jd) THEN jd2cal_non_neg_years(jd)
                               ELSE jd2cal_neg_years(jd)

alternate_jd2Cal(dj1, dj2) ==
  LET jan_1_year_0 == DAdd(JAN_0_YEAR_0, Dbl(1))
      jd == DAdd(dj1, dj2)
  IN  IF DLe(jan_1_year_0, jd) THEN jd2cal_non_neg_years(jd)
                               ELSE jd2cal_neg_years(jd)

DJMAX == Dbl(1000000000)

\* The ceiling test with >= for >.
alternate_iauJd2cal_ge(dj1, dj2, old) ==
  LET dj == DAdd(dj1, dj2)
  IN  IF DLe(Dbl(1000000000), dj)
        THEN [j |-> -1, iy |-> old.iy, im |-> old.im, id |-> old.id, fd |-> old.fd,
              locals |-> old.locals]
        ELSE Local(alternate_jd2Cal(dj1, dj2),
                   LAMBDA r : [j |-> 0, iy |-> r.iy, im |-> r.im, id |-> r.id,
                               fd |-> r.fd, locals |-> r.locals])

\* The call's status and what the caller's iy, im, id, fd hold after it; old
\* is what they held before (an OutOfRange return stores nothing).  The day
\* number jd and fraction f that the function derives by compensated
\* summation are locals that it abandons before calling alternate_jd2Cal.
alternate_iauJd2cal(dj1, dj2, old) ==
  LET dj == DAdd(dj1, dj2)
  IN  IF DLt(DJMAX, dj)
        THEN [j |-> -1, iy |-> old.iy, im |-> old.im, id |-> old.id, fd |-> old.fd,
              locals |-> old.locals]
        ELSE Local(alternate_jd2Cal(dj1, dj2),
                   LAMBDA r : [j |-> 0, iy |-> r.iy, im |-> r.im, id |-> r.id,
                               fd |-> r.fd, locals |-> r.locals])

\* The engine is called, and so its int arithmetic done, below the ceiling.
alternate_iauJd2cal_overflow(dj1, dj2) ==
  ~DLt(DJMAX, DAdd(dj1, dj2)) /\ alternate_jd2Cal_overflow(dj1, dj2)

\* ------------------------------------------- the day number and fraction
\* What alternate_iauJd2cal and terse_alternate_iauJd2cal compute between the
\* ceiling test and the call of the engine: the day number jd and the
\* fraction f of dj1 + dj2 + 0.5, by compensated summation.
DAbs(a) == IF a[1] >= 0 THEN a ELSE DNeg(a)
\* The nearest whole number, a half going away from zero.
dnint(a) ==
  IF a[1] >= 0 THEN a[1] + (IF a[2] >= Den \div 2 THEN 1 ELSE 0)
               ELSE a[1] + (IF a[2] > Den \div 2 THEN 1 ELSE 0)

\* for ( i = 0; i < 2; i++ ) { x = v[i]; ... }: one pass, st the record of
\* jd, s and cs.
compensated_body(st, x) ==
  Local(DAdd(st.s, x), LAMBDA t :
    LET cs == DAdd(st.cs, IF DLe(DAbs(x), DAbs(st.s))
                            THEN DAdd(DSub(st.s, t), x)
                            ELSE DAdd(DSub(x, t), st.s))
    IN  IF DLe(Dbl(1), t) THEN [jd |-> st.jd + 1, s |-> DSub(t, Dbl(1)), cs |-> cs]
                          ELSE [jd |-> st.jd, s |-> t, cs |-> cs])

\* if ( f < 0.0 ) { ... jd--; }
compensated_negative_f(st) ==
  IF DLt(st.f, Dbl(0))
    THEN Local(DAdd(st.s, Dbl(1)), LAMBDA f1 :
         Local(DAdd(st.cs, DAdd(DSub(Dbl(1), f1), st.s)), LAMBDA cs1 :
           [jd |-> st.jd - 1, s |-> f1, cs |-> DSub(DAdd(f1, cs1), f1),
            f |-> DAdd(f1, cs1)]))
    ELSE st

\* if ( (f-1.0) >= -DBL_EPSILON/4.0 ) { ... }: every f here is a multiple of
\* 2^-24, so the two tests against fractions of DBL_EPSILON are tests
\* against 0.
compensated_whole_f(st) ==
  IF DLe(Dbl(0), DSub(st.f, Dbl(1)))
    THEN Local(DSub(st.s, Dbl(1)), LAMBDA t :
         Local(DAdd(st.cs, DSub(DSub(st.s, t), Dbl(1))), LAMBDA cs1 :
         Local(DAdd(t, cs1), LAMBDA f1 :
           IF DLe(Dbl(0), f1) THEN [jd |-> st.jd + 1, f |-> f1]
                              ELSE [jd |-> st.jd, f |-> f1])))
    ELSE [jd |-> st.jd, f |-> st.f]

compensated_jd_f(dj1, dj2) ==
  Local(DSub(dj1, Dbl(dnint(dj1))), LAMBDA f1 :
  Local(DSub(dj2, Dbl(dnint(dj2))), LAMBDA f2 :
  Local(compensated_body([jd |-> dnint(dj1) + dnint(dj2),
                          s |-> <<0, Den \div 2>>, cs |-> Dbl(0)], f1),
        LAMBDA st1 :
  Local(compensated_body(st1, f2), LAMBDA st2 :
  Local(DAdd(st2.s, st2.cs), LAMBDA f :
  Local(compensated_negative_f([jd |-> st2.jd, s |-> st2.s,
                                cs |-> DSub(f, st2.s), f |-> f]),
        compensated_whole_f))))))

\* ------------------------------------- terse Julian Date -> Date engine
\* Every fourth year leap, the century rule left out.
is_leap_terse_every_4(y) ==
  CRem(y, 4) = 0

is_leap_terse(y) ==
  IF CRem(y, 100) = 0 THEN CRem(y, 400) = 0 ELSE CRem(y, 4) = 0

the_month_len(y, m) ==
  LET length == MONTH_LEN[(m - 1) + 1]
      has_leap_day == is_leap_terse(y) /\ (m = 2)
  IN  IF has_leap_day THEN length + 1 ELSE length

\* for(int more = 0; more < CYCLE_YEARS; ++more) { if (fits) {...} else break; }
terse_year_body(s) ==
  IF s.more < CYCLE_YEARS
    THEN LET year_length == IF is_leap_terse(s.year_so_far + s.more)
                              THEN LONG_YR ELSE SHORT_YR
         IN  IF DLe(DAdd(s.cursor, Dbl(year_length)), s.jd_minus_base)
               THEN [s EXCEPT !.cursor = DAdd(s.cursor, Dbl(year_length)),
                              !.year = s.year + 1,
                              !.more = s.more + 1]
               ELSE [s EXCEPT !.left = TRUE]
    ELSE [s EXCEPT !.left = TRUE]

\* for(month = 1; month <= 12; ++month): month is the loop index and the
\* result; fractional_days keeps its initial 0.0 unless the loop breaks.
terse_month_body(s) ==
  IF s.month <= 12
    THEN LET base_length == MONTH_LEN[(s.month - 1) + 1]
             month_length == IF is_leap_terse(s.year) /\ s.month = 2
                               THEN base_length + 1 ELSE base_length
         IN  IF DLe(DAdd(s.cursor, Dbl(month_length)), s.jd_minus_base)
               THEN [s EXCEPT !.cursor = DAdd(s.cursor, Dbl(month_length)),
                              !.month = s.month + 1]
               ELSE [s EXCEPT !.fractional_days =
                                 DAdd(DSub(s.jd_minus_base, s.cursor), Dbl(1)),
                              !.left = TRUE]
    ELSE [s EXCEPT !.left = TRUE]

\* The function without the closed-form estimate of the remainder years:
\* the year loop starts from the base.
julian_date_to_gregorian_cal_steps_no_estimate(dj1, dj2) ==
  Local(DAdd(dj1, dj2), LAMBDA jd :
  Local(DFloorDiv(DSub(jd, JAN_1_YEAR_0), CYCLE_DAYS), LAMBDA num_cycles :
  Local(DSub(jd, DAdd(JAN_1_YEAR_0, Dbl(num_cycles * CYCLE_DAYS))), LAMBDA jd_minus_base :
  Local(CDiv(jd_minus_base[1], LONG_YR) - 1, LAMBDA more_years :
  Local([cursor |-> Dbl(0), year |-> num_cycles * CYCLE_YEARS], LAMBDA c :
  Local(Loop(terse_year_body,
             [more |-> 0, year_so_far |-> c.year, year |-> c.year,
              cursor |-> c.cursor, jd_minus_base |-> jd_minus_base, left |-> FALSE],
             CYCLE_YEARS + 1), LAMBDA yl :
    [num_cycles |-> num_cycles, jd_minus_base |-> jd_minus_base,
     more_years |-> more_years, estimate |-> c, yl |-> yl,
     ml |-> Loop(terse_month_body,
                 [month |-> 1, year |-> yl.year, cursor |-> yl.cursor,
                  jd_minus_base |-> jd_minus_base, fractional_days |-> Dbl(0),
                  left |-> FALSE],
                 12 + 1)]))))))

\* The locals of julian_date_to_gregorian_cal as it leaves them: the base and
\* the offset from it, the estimate, and the variables of the two loops (a
\* year loop that broke has more < CYCLE_YEARS, a month loop that broke has
\* month <= 12).
julian_date_to_gregorian_cal_steps(dj1, dj2) ==
  Local(DAdd(dj1, dj2), LAMBDA jd :
  Local(DFloorDiv(DSub(jd, JAN_1_YEAR_0), CYCLE_DAYS), LAMBDA num_cycles :
  Local(DSub(jd, DAdd(JAN_1_YEAR_0, Dbl(num_cycles * CYCLE_DAYS))), LAMBDA jd_minus_base :
  Local(CDiv(jd_minus_base[1], LONG_YR) - 1, LAMBDA more_years :
  Local(IF more_years > 0
          THEN LET m_p == more_years - 1
                   more_days == more_years * SHORT_YR + CDiv(m_p, 4) - CDiv(m_p, 100)
                                  + CDiv(m_p, 400) + 1
               IN  [cursor |-> Dbl(more_days),
                    year |-> num_cycles * CYCLE_YEARS + more_years]
          ELSE [cursor |-> Dbl(0), year |-> num_cycles * CYCLE_YEARS], LAMBDA c :
  Local(Loop(terse_year_body,
             [more |-> 0, year_so_far |-> c.year, year |-> c.year,
              cursor |-> c.cursor, jd_minus_base |-> jd_minus_base, left |-> FALSE],
             CYCLE_YEARS + 1), LAMBDA yl :
    [num_cycles |-> num_cycles, jd_minus_base |-> jd_minus_base,
     more_years |-> more_years, estimate |-> c, yl |-> yl,
     ml |-> Loop(terse_month_body,
                 [month |-> 1, year |-> yl.year, cursor |-> yl.cursor,
                  jd_minus_base |-> jd_minus_base, fractional_days |-> Dbl(0),
                  left |-> FALSE],
                 12 + 1)]))))))

\* The months m for which the month loop looked up MONTH_LEN[m - 1], from
\* the locals t the function left.
julian_date_to_gregorian_cal_lookups(t) ==
  {m \in 1..12 : m <= t.ml.month}

\* What the function stores through iy, im, id and fd, and its locals.
julian_date_to_gregorian_cal(dj1, dj2) ==
  Local(julian_date_to_gregorian_cal_steps(dj1, dj2), LAMBDA t :
    [iy |-> t.yl.year, im |-> t.ml.month, id |-> dint(t.ml.fractional_days),
     fd |-> DSub(t.ml.fractional_days, Dbl(dint(t.ml.fractional_days))),
     locals |-> t])

\* Signed overflow in the int arithmetic of julian_date_to_gregorian_cal:
\* num_cycles * CYCLE_DAYS and num_cycles * CYCLE_YEARS (the estimate of the
\* years stays within one cycle).
julian_date_to_gregorian_cal_overflow(dj1, dj2) ==
  LET jd == DAdd(dj1, dj2)
      num_cycles == DFloorDiv(DSub(jd, JAN_1_YEAR_0), CYCLE_DAYS)
  IN  \/ IntMulOverflows(num_cycles, CYCLE_DAYS)
      \/ IntMulOverflows(num_cycles, CYCLE_YEARS)

terse_alternate_iauJd2cal_overflow(dj1, dj2) ==
  ~DLt(DJMAX, DAdd(dj1, dj2)) /\ julian_date_to_gregorian_cal_overflow(dj1, dj2)

terse_alternate_iauJd2cal(dj1, dj2, old) ==
  LET dj == DAdd(dj1, dj2)
  IN  IF DLt(DJMAX, dj)
        THEN [j |-> -1, iy |-> old.iy, im |-> old.im, id |-> old.id, fd |-> old.fd,
              locals |-> old.locals]
        ELSE Local(julian_date_to_gregorian_cal(dj1, dj2),
                   LAMBDA r : [j |-> 0, iy |-> r.iy, im |-> r.im, id |-> r.id,
                               fd |-> r.fd, locals |-> r.locals])

\* ------------------------------------------------------------ the callers
\* One behaviour is one test of alternate-run-tests.c: a calendar date is
\* converted (test_yyyy_mm_dd_to_julian_date) and the Julian Date obtained is
\* converted back, or a two-part Julian Date is converted
\* (test_julian_date_to_yyyy_mm_dd) and presented again split differently.
VARIABLES
  pc,          \* "cal_args", "cal_done", "jd_args", "jd_done", "jd_reargs",
               \* "jd_redone", "aborted"
  fwd,         \* the forward function called: "none", "alternate", "terse"
  rev,         \* the reverse function called: "none", "alternate", "terse"
  iy, im, id,  \* arguments of the forward call
  djm0, djm,   \* the caller's doubles the forward call stores through
  j,           \* status returned by the forward call
  dj1, dj2,    \* arguments of the reverse call
  result_y, result_m, result_d, result_fd,  \* the caller's reverse outputs
  status,      \* status returned by the reverse call
  locals,      \* the locals of the engine the reverse call ran, as it left
               \* them: the variables of its loops
  overflow     \* an int computation of a call left the range of int

vars == <<pc, fwd, rev, iy, im, id, djm0, djm, j, dj1, dj2,
          result_y, result_m, result_d, result_fd, status, locals, overflow>>

fwdVars == <<fwd, iy, im, id, djm0, djm, j>>
revOut == <<result_y, result_m, result_d, result_fd, status, locals>>

\* Years of the tests of run_tests_for_both_old_and_new_algorithms, the years
\* around the 400-year cycle boundaries and the far years of the range.
LandmarkYears ==
  {-50000, -4799, -4713, -1374, -800, -401, -400, -399, -100,
   96, 100, 399, 400, 1600, 2003, 2024, 30000, 50000}
NearYears == -MaxYear..MaxYear
Years == NearYears \cup LandmarkYears
Months == 0..13
\* Every day of a month and one too few and too many, for the years near 0;
\* the ends of the months and the days of the tests, for the landmark years.
Days == 0..32
LandmarkDays == {0, 1, 4, 24, 28, 29, 30, 31, 32}

\* Whole Julian days around which the reverse conversion is exercised: the
\* origin, the anchor 1721059.5 and the cycle bases next to it, dates of the
\* tests, and both ends of the range around the ceiling DJMAX.
JdLandmarks ==
  {0, -31739, 1219339, 1721059 - 2 * 146097, 1721059 - 146097, 1721059,
   1721059 + 146097, 2400000, 2436116, 2452791, 2460310,
   1000000000, -1000000000}
JulianDates ==
  {<<n + k, f>> : n \in JdLandmarks, k \in -MaxOff..MaxOff, f \in {k * Unit : k \in 0..(2^FracBits - 1)}}
\* The second components a Julian Date is split off into.
SplitParts == {Dbl(0), Dbl(52791), <<0, Unit>>, <<-1, Den - Unit>>}
\* A whole day number beyond 2^29 with a second component of a few units of
\* 2^-24 day: each is a double, their sum is not.
FineSplits == {<<Dbl(n), <<0, k>>>> : n \in {600000000, -600000000}, k \in {1, 3}}
Splits(jd) == {<<DSub(jd, p), p>> : p \in SplitParts} \cup {<<Dbl(0), jd>>}
\* What the caller's uninitialised reverse outputs may hold.
Uninit == {0, -1}

\* Years at and beyond the first int overflow of the forward engines, on
\* both sides of year 0, and the extreme years of int.
WideYears ==
  {5800000, 5880000, 6000000, INT_MAX,
   -5800000, -5879605, -5879620, -5880001, -6000000, -INT_MAX}
\* Whole Julian days at the ceiling DJMAX and towards the least double that
\* the model holds.
WideJdLandmarks == {999999999, 1000000001, -2100000000, -2145760000}
WideDays == {0, 1, 29, 31}
\* What a caller may find in djm0 after a call whose behaviour was undefined.
UBDoubles == {Dbl(0), Dbl(-1)}

InitCal ==
  /\ pc = "cal_args" /\ fwd = "none" /\ rev = "none"
  /\ iy \in Years /\ im \in Months
  /\ id \in (IF iy \in NearYears THEN Days ELSE LandmarkDays)
  /\ djm0 = Dbl(0) /\ djm = Dbl(0) /\ j = 0
  /\ dj1 = Dbl(0) /\ dj2 = Dbl(0)
  /\ result_y = 0 /\ result_m = 0 /\ result_d = 0 /\ result_fd = Dbl(0)
  /\ status = 0 /\ locals = <<>> /\ overflow = FALSE

InitJd ==
  /\ pc = "jd_args" /\ fwd = "none" /\ rev = "none"
  /\ iy = 0 /\ im = 0 /\ id = 0
  /\ djm0 = Dbl(0) /\ djm = Dbl(0) /\ j = 0
  /\ \E s \in UNION {Splits(jd) : jd \in JulianDates} \cup FineSplits :
       dj1 = s[1] /\ dj2 = s[2]
  /\ \E g \in Uninit :
       result_y = g /\ result_m = g /\ result_d = g /\ result_fd = Dbl(g)
  /\ status = 0 /\ locals = <<>> /\ overflow = FALSE

Init == InitCal \/ InitJd

\* The same callers with arguments from the far ends of int and of the
\* Julian Dates.
InitCalWide ==
  /\ pc = "cal_args" /\ fwd = "none" /\ rev = "none"
  /\ iy \in WideYears /\ im \in Months /\ id \in WideDays
  /\ djm0 = Dbl(0) /\ djm = Dbl(0) /\ j = 0
  /\ dj1 = Dbl(0) /\ dj2 = Dbl(0)
  /\ result_y = 0 /\ result_m = 0 /\ result_d = 0 /\ result_fd = Dbl(0)
  /\ status = 0 /\ locals = <<>> /\ overflow = FALSE

InitJdWide ==
  /\ pc = "jd_args" /\ fwd = "none" /\ rev = "none"
  /\ iy = 0 /\ im = 0 /\ id = 0
  /\ djm0 = Dbl(0) /\ djm = Dbl(0) /\ j = 0
  /\ \E n \in WideJdLandmarks : \E f \in {k * Unit : k \in 0..(2^FracBits - 1)} :
       \E s \in Splits(<<n, f>>) : dj1 = s[1] /\ dj2 = s[2]
  /\ \E g \in Uninit :
       result_y = g /\ result_m = g /\ result_d = g /\ result_fd = Dbl(g)
  /\ status = 0 /\ locals = <<>> /\ overflow = FALSE

InitWide == InitCalWide \/ InitJdWide

\* A call whose int arithmetic overflows has undefined behaviour: the
\* program is stopped (a trapping build), or the call returns with its
\* outputs holding no particular value.
CallCal2jd ==
  /\ pc = "cal_args"
  /\ IF alternate_iauCal2jd_overflow(iy, im, id)
       THEN /\ overflow' = TRUE
            /\ \/ pc' = "aborted" /\ UNCHANGED <<djm0, djm, j>>
               \/ /\ pc' = "cal_done"
                  /\ djm0' \in UBDoubles /\ djm' = Dbl(0) /\ j' \in {0, -3}
       ELSE /\ \E r \in {alternate_iauCal2jd(iy, im, id, djm0, djm)} :
                 djm0' = r.djm0 /\ djm' = r.djm /\ j' = r.j
            /\ pc' = "cal_done" /\ UNCHANGED overflow
  /\ fwd' = "alternate"
  /\ UNCHANGED <<rev, iy, im, id, dj1, dj2, revOut>>

CallTerseCal2jd ==
  /\ pc = "cal_args"
  /\ IF terse_alternate_iauCal2jd_overflow(iy, im, id)
       THEN /\ overflow' = TRUE
            /\ \/ pc' = "aborted" /\ UNCHANGED <<djm0, djm, j>>
               \/ /\ pc' = "cal_done"
                  /\ djm0' \in UBDoubles /\ djm' = Dbl(0) /\ j' \in {0, -3}
       ELSE /\ \E r \in {terse_alternate_iauCal2jd(iy, im, id, djm0, djm)} :
                 djm0' = r.djm0 /\ djm' = r.djm /\ j' = r.j
            /\ pc' = "cal_done" /\ UNCHANGED overflow
  /\ fwd' = "terse"
  /\ UNCHANGED <<rev, iy, im, id, dj1, dj2, revOut>>

\* The caller checks the status and hands the Julian Date back.
FeedBack ==
  /\ pc = "cal_done" /\ j = 0
  /\ dj1' = djm0 /\ dj2' = djm
  /\ pc' = "jd_args"
  /\ UNCHANGED <<fwdVars, rev, revOut, overflow>>

CallJd2cal ==
  /\ pc = "jd_args" \/ (pc = "jd_reargs" /\ rev = "alternate")
  /\ IF alternate_iauJd2cal_overflow(dj1, dj2)
       THEN /\ overflow' = TRUE
            /\ \/ pc' = "aborted" /\ UNCHANGED revOut
               \/ /\ pc' = IF pc = "jd_args" THEN "jd_done" ELSE "jd_redone"
                  /\ \E g \in Uninit :
                       /\ result_y' = g /\ result_m' = g /\ result_d' = g
                       /\ result_fd' = Dbl(g)
                  /\ status' = 0 /\ locals' = <<>>
       ELSE /\ \E r \in {alternate_iauJd2cal(dj1, dj2,
                  [iy |-> result_y, im |-> result_m, id |-> result_d, fd |-> result_fd,
                   locals |-> locals])} :
                 /\ result_y' = r.iy /\ result_m' = r.im /\ result_d' = r.id
                 /\ result_fd' = r.fd /\ status' = r.j /\ locals' = r.locals
            /\ pc' = IF pc = "jd_args" THEN "jd_done" ELSE "jd_redone"
            /\ UNCHANGED overflow
  /\ rev' = "alternate"
  /\ UNCHANGED <<fwdVars, dj1, dj2>>

CallTerseJd2cal ==
  /\ pc = "jd_args" \/ (pc = "jd_reargs" /\ rev = "terse")
  /\ IF terse_alternate_iauJd2cal_overflow(dj1, dj2)
       THEN /\ overflow' = TRUE
            /\ \/ pc' = "aborted" /\ UNCHANGED revOut
               \/ /\ pc' = IF pc = "jd_args" THEN "jd_done" ELSE "jd_redone"
                  /\ \E g \in Uninit :
                       /\ result_y' = g /\ result_m' = g /\ result_d' = g
                       /\ result_fd' = Dbl(g)
                  /\ status' = 0 /\ locals' = <<>>
       ELSE /\ \E r \in {terse_alternate_iauJd2cal(dj1, dj2,
                  [iy |-> result_y, im |-> result_m, id |-> result_d, fd |-> result_fd,
                   locals |-> locals])} :
                 /\ result_y' = r.iy /\ result_m' = r.im /\ result_d' = r.id
                 /\ result_fd' = r.fd /\ status' = r.j /\ locals' = r.locals
            /\ pc' = IF pc = "jd_args" THEN "jd_done" ELSE "jd_redone"
            /\ UNCHANGED overflow
  /\ rev' = "terse"
  /\ UNCHANGED <<fwdVars, dj1, dj2>>

\* The same Julian Date is presented again, divided differently between the
\* two components; the caller's outputs still hold the first answer.
Resplit ==
  /\ pc = "jd_done" /\ fwd = "none"
  /\ \E s \in Splits(DAdd(dj1, dj2)) :
       /\ <<dj1, dj2>> # s
       /\ dj1' = s[1] /\ dj2' = s[2]
  /\ pc' = "jd_reargs"
  /\ UNCHANGED <<fwdVars, rev, revOut, overflow>>

Next ==
  \/ CallCal2jd
  \/ CallTerseCal2jd
  \/ FeedBack
  \/ CallJd2cal
  \/ CallTerseJd2cal
  \/ Resplit

Spec == Init /\ [][Next]_vars
SpecWide == InitWide /\ [][Next]_vars

\* ------------------------------------------------- the calendar, as stated
\* The proleptic Gregorian calendar in terms of divisibility (% is the
\* mathematical modulus here), against which the engines are checked.
Divides(n, y) == y % n = 0
GregorianLeap(y) == Divides(4, y) /\ (~Divides(100, y) \/ Divides(400, y))
GregorianYearLen(y) == IF GregorianLeap(y) THEN 366 ELSE 365
GregorianMonthLen(y, m) ==
  IF m = 2 THEN (IF GregorianLeap(y) THEN 29 ELSE 28)
  ELSE IF m \in {4, 6, 9, 11} THEN 30 ELSE 31
ValidDate(y, m, d) == m \in 1..12 /\ d \in 1..GregorianMonthLen(y, m)

\* Sum of the year lengths over the years from..(to - 1).
RECURSIVE SumYearLen(_, _)
SumYearLen(from, to) ==
  IF from >= to THEN 0
  ELSE IF to = from + 1 THEN GregorianYearLen(from)
  ELSE SumYearLen(from, from + ((to - from) \div 2))
         + SumYearLen(from + ((to - from) \div 2), to)

\* S(y): days from the start of year 0 to the start of year y.
DaysToYear == [y \in Years |-> IF y >= 0 THEN SumYearLen(0, y) ELSE -SumYearLen(y, 0)]

\* 1-based ordinal of the date in its year.
RECURSIVE DayOfYear(_, _, _)
DayOfYear(y, m, d) ==
  IF m <= 1 THEN d ELSE GregorianMonthLen(y, m - 1) + DayOfYear(y, m - 1, d)

Half == <<0, Den \div 2>>                     \* 0.5
JulianDate == DAdd(djm0, djm)                 \* the forward call's result
CalDone == pc = "cal_done"
JdDone == pc \in {"jd_done", "jd_redone"}

\* What the forward function that was called returns for another date.
SameCal2jd(y, m, d) ==
  IF fwd = "terse" THEN gregorian_cal_to_julian_date(y, m, Dbl(d)).djm0
                   ELSE alternate_cal2jd(y, m, d).djm0

\* --------------------------------------------------------------------- C1
\* C1: round trip.  When alternate_iauCal2jd has converted a valid date
\* (y, m, d) and its (djm0, djm) has been fed to alternate_iauJd2cal, the
\* reverse call returns status 0 and exactly (y, m, d, 0.0).
C1_RoundTrip ==
  (JdDone /\ fwd = "alternate" /\ rev = "alternate" /\ ValidDate(iy, im, id)
     /\ dj1 = djm0 /\ dj2 = djm)
    => /\ status = 0
       /\ <<result_y, result_m, result_d, result_fd>> = <<iy, im, id, Dbl(0)>>

\* A leap day of a negative cycle-boundary year has made the round trip.
C1_Witness ==
  /\ JdDone /\ fwd = "alternate" /\ rev = "alternate"
  /\ dj1 = djm0 /\ dj2 = djm
  /\ <<iy, im, id>> = <<-400, 2, 29>> /\ result_y = -400

\* --------------------------------------------------------------------- C2
\* C2: reference day count.  For a valid date alternate_iauCal2jd returns
\* djm0 + djm = 1721058.5 + S(y) + dayOfYear(y, m, d), S(y) being the signed
\* sum of the year lengths between year 0 and year y.
C2_ReferenceDayCount ==
  (CalDone /\ fwd = "alternate" /\ ValidDate(iy, im, id))
    => JulianDate = DAdd(DAdd(Dbl(1721058), Half),
                         Dbl(DaysToYear[iy] + DayOfYear(iy, im, id)))

\* A date after the leap day of a negative leap year has been converted.
C2_Witness ==
  /\ CalDone /\ fwd = "alternate" /\ j = 0
  /\ <<iy, im, id>> = <<-4, 3, 1>>
  /\ JulianDate = DAdd(DAdd(Dbl(1721058), Half), Dbl(-(366 + 3 * 365) + 61))

\* --------------------------------------------------------------------- C3
\* C3: boundary continuity.  The Julian Date of December 31 of year y, plus
\* one, is the Julian Date of January 1 of year y + 1, for every year y.
C3_BoundaryContinuity ==
  (CalDone /\ j = 0 /\ im = 12 /\ id = 31)
    => DAdd(JulianDate, Dbl(1)) = SameCal2jd(iy + 1, 1, 1)

\* December 31 of year -1 has been converted: the next day is in the other
\* branch of the engine.
C3_Witness ==
  /\ CalDone /\ fwd = "alternate" /\ j = 0 /\ <<iy, im, id>> = <<-1, 12, 31>>
  /\ JulianDate = DAdd(Dbl(1721058), Half)

\* --------------------------------------------------------------------- C4
\* C4: monotonicity.  Within a month the Julian Date of day d + 1 is that of
\* day d plus exactly 1.0, and the Julian Date of day d is d - 1 days after
\* that of day 1, so it strictly increases with d, in both branches.
C4_Monotonic ==
  (CalDone /\ ValidDate(iy, im, id))
    => /\ ValidDate(iy, im, id + 1)
            => SameCal2jd(iy, im, id + 1) = DAdd(JulianDate, Dbl(1))
       /\ JulianDate = DAdd(SameCal2jd(iy, im, 1), Dbl(id - 1))
       /\ id > 1 => DLt(SameCal2jd(iy, im, 1), JulianDate)

\* A day of a negative year that has a next day in its month was converted.
C4_Witness ==
  /\ CalDone /\ fwd = "alternate" /\ j = 0 /\ <<iy, im, id>> = <<-4713, 11, 24>>
  /\ ValidDate(iy, im, id + 1)

\* --------------------------------------------------------------------- C5
\* C5: known fixed points of the two conversions.
C5_FixedPoints ==
  /\ (CalDone /\ <<iy, im, id>> = <<2003, 6, 1>>)
       => JulianDate = DAdd(Dbl(2452791), Half)
  /\ (CalDone /\ <<iy, im, id>> = <<-4713, 11, 24>>)
       => DAdd(JulianDate, Half) = Dbl(0)
  /\ (CalDone /\ <<iy, im, id>> = <<2024, 1, 1>>)
       => JulianDate = DAdd(Dbl(2460310), Half)
  /\ (JdDone /\ DAdd(dj1, dj2) = DAdd(Dbl(2460310), Half))
       => /\ status = 0
          /\ <<result_y, result_m, result_d, result_fd>> = <<2024, 1, 1, Dbl(0)>>
  /\ (CalDone /\ <<iy, im, id>> = <<1600, 3, 1>>)
       => JulianDate = DAdd(DAdd(Dbl(2305447), Half), Dbl(60))
  /\ (CalDone /\ <<iy, im, id>> = <<-4799, 1, 1>>)
       => JulianDate = DNeg(DAdd(Dbl(31738), Half))
  /\ (CalDone /\ <<iy, im, id>> = <<30000, 1, 1>>)
       => DAdd(JulianDate, Half) = Dbl(12678335)

\* The Julian Date origin has been computed from its Gregorian date.
C5_Witness ==
  /\ CalDone /\ fwd = "alternate" /\ <<iy, im, id>> = <<-4713, 11, 24>>
  /\ JulianDate = DNeg(Half)

\* --------------------------------------------------------------------- C6
\* C6: the status of the forward conversion, of either variant and for every
\* year, is InvalidMonth (-2) iff the month is outside 1..12, otherwise
\* InvalidDay (-3) iff the day is outside 1..month length (February having
\* 29 days exactly in leap years), otherwise Ok (0).
C6_ForwardStatus ==
  CalDone =>
    j = IF im < 1 \/ im > 12 THEN -2
        ELSE IF id < 1 \/ id > GregorianMonthLen(iy, im) THEN -3
        ELSE 0

\* February 29 of the negative leap year -400 was accepted.
C6_Witness ==
  CalDone /\ j = 0 /\ <<iy, im, id>> = <<-400, 2, 29>>

\* --------------------------------------------------------------------- C7
\* C7 as stated: whenever the forward conversion returns a non-Ok status it
\* has stored a Julian Date through djm0 and djm (a Julian Date of a calendar
\* day is never the 0.0 the caller preset).
C7_NonOkStillStores ==
  (CalDone /\ j # 0) => <<djm0, djm>> # <<Dbl(0), Dbl(0)>>

\* C7 amended: an InvalidDay (-3) return has stored the Julian Date computed
\* from the out-of-range day (that of day 1 of the month plus id - 1 days,
\* with a zero djm); an InvalidMonth (-2) return was taken before any
\* computation and leaves djm0 and djm as the caller set them.
C7_InvalidDayStillStores ==
  CalDone =>
    /\ j = -3 => /\ JulianDate = DAdd(SameCal2jd(iy, im, 1), Dbl(id - 1))
                 /\ djm = Dbl(0) /\ djm0 # Dbl(0)
    /\ j = -2 => <<djm0, djm>> = <<Dbl(0), Dbl(0)>>

\* February 30 of a leap year was rejected, and its Julian Date, that of
\* March 1, stored.
C7_Witness ==
  /\ CalDone /\ fwd = "alternate" /\ j = -3 /\ <<iy, im, id>> = <<2024, 2, 30>>
  /\ JulianDate = DAdd(Dbl(2460370), Half)

\* --------------------------------------------------------------------- C8
\* C8: the reverse conversion, of either variant, returns OutOfRange (-1) iff
\* dj1 + dj2 > 1e9 and otherwise Ok (0) with a converted date, however
\* negative the Julian Date: a date of the calendar with a fraction in
\* [0, 1) whose Julian Date, by the forward engine, is dj1 + dj2.
C8_ReverseStatus ==
  JdDone =>
    /\ status = IF DLt(Dbl(1000000000), DAdd(dj1, dj2)) THEN -1 ELSE 0
    /\ status = 0 =>
         /\ ValidDate(result_y, result_m, result_d)
         /\ result_fd[1] = 0 /\ result_fd[2] \in 0..(Den - 1)
         /\ DAdd(alternate_cal2jd(result_y, result_m, result_d).djm0, result_fd)
              = DAdd(dj1, dj2)

\* A Julian Date of minus a thousand million days was converted.
C8_Witness ==
  /\ JdDone /\ rev = "alternate" /\ status = 0
  /\ DAdd(dj1, dj2) = DAdd(Dbl(-1000000000), Half)
  /\ result_y < -2000000

\* --------------------------------------------------------------------- C9
\* C9: re-splitting invariance.  When a Julian Date that was converted is
\* presented again with its sum divided differently between dj1 and dj2,
\* the second call returns the status, year, month, day and fraction of the
\* first, which the caller's outputs still hold.
C9_ResplitInvariance ==
  [][(pc = "jd_reargs" /\ pc' = "jd_redone")
       => <<status, result_y, result_m, result_d, result_fd>>'
            = <<status, result_y, result_m, result_d, result_fd>>]_vars

\* 2452791.5 was converted as (2400000.5, 52791.0) or another split and
\* then again as (0.0, 2452791.5).
C9_Witness ==
  /\ pc = "jd_redone" /\ rev = "alternate" /\ status = 0
  /\ dj1 = Dbl(0) /\ dj2 = DAdd(Dbl(2452791), Half)
  /\ <<result_y, result_m, result_d, result_fd>> = <<2003, 6, 1, Dbl(0)>>

\* -------------------------------------------------------------------- C10
\* C10: the leap rule.  For the year y of a call, is_leap(y) holds iff y is
\* divisible by 4 and (not by 100 or by 400); the copies of the rule (is_leap
\* of both files, the inline test of gregorian_cal_to_julian_date, the ly
\* expression of the validators for February) agree with it, and year_len(y)
\* is 366 exactly when is_leap(y) and 365 otherwise.
LeapRuleAt(y) ==
  /\ is_leap(y) <=> GregorianLeap(y)
  /\ is_leap_terse(y) <=> is_leap(y)
  /\ gregorian_is_leap(y) <=> is_leap(y)
  /\ (ly(y, 2) = 1) <=> is_leap(y)
  /\ \A m \in 1..12 : ly(y, m) \in {0, 1} /\ (m # 2 => ly(y, m) = 0)
  /\ year_len(y) = IF GregorianLeap(y) THEN 366 ELSE 365

C10_LeapRule ==
  /\ CalDone => LeapRuleAt(iy)
  /\ (JdDone /\ status = 0) => LeapRuleAt(result_y)

\* February 29 of the negative century year -100 was rejected: the rule was
\* applied to a year whose C remainders are zero or negative.
C10_Witness ==
  /\ CalDone /\ <<iy, im, id>> = <<-100, 2, 29>> /\ j = -3
  /\ ~is_leap(iy) /\ is_leap(iy - 300)

\* -------------------------------------------------------------------- C11
\* C11 as stated: for every year of int, and every Julian Date up to 1e9
\* however negative, no int computation of either engine of either
\* direction leaves the range of int, so every call returns and none has
\* undefined behaviour.
C11_NoIntOverflow ==
  ~overflow /\ pc # "aborted"

\* -------------------------------------------------------------------- C12
\* C12 as stated: the day and the fraction that the reverse conversion
\* returns are those of the day number jd and the fraction f that it derives
\* from dj1 and dj2 by compensated summation: fractionalDay is f, and the
\* date returned is the calendar day whose Julian Date at midnight is
\* jd - 0.5.
C12_FractionFromCompensatedSum ==
  (JdDone /\ status = 0 /\ ~overflow)
    => \A c \in {compensated_jd_f(dj1, dj2)} :
         /\ result_fd = c.f
         /\ DAdd(alternate_cal2jd(result_y, result_m, result_d).djm0, Half)
              = Dbl(c.jd)

\* -------------------------------------------------------------------- C13
\* C13: the forward variants agree.  For every year, every month in 1..12
\* and every day, valid or not, what the forward function that was called
\* returned and stored (status, djm0, djm) is what the other forward
\* function returns and stores for the same date: the closed-form count of
\* terse_alternate_iauCal2jd and the cycle counting of alternate_iauCal2jd
\* give the same result.
C13_ForwardVariantsAgree ==
  (CalDone /\ im \in 1..12)
    => <<j, djm0, djm>> =
         IF fwd = "terse"
           THEN LET r == alternate_iauCal2jd(iy, im, id, Dbl(0), Dbl(0))
                IN  <<r.j, r.djm0, r.djm>>
           ELSE LET r == terse_alternate_iauCal2jd(iy, im, id, Dbl(0), Dbl(0))
                IN  <<r.j, r.djm0, r.djm>>

\* The terse function converted February 30 of the negative leap year -400:
\* an invalid day of a year on a cycle boundary.
C13_Witness ==
  /\ CalDone /\ fwd = "terse" /\ <<iy, im, id>> = <<-400, 2, 30>> /\ j = -3
  /\ JulianDate = alternate_cal2jd(-400, 3, 1).djm0

C15_WitnessNonNeg ==
  /\ JdDone /\ status = 0 /\ dj2 = Dbl(0)
  /\ result_y >= 0 /\ result_fd = <<0, 3 * (Den \div 4)>>

\* -------------------------------------------------------------------- C16
\* C16: the loops are bounded by one 400-year cycle.  Whenever
\* alternate_iauCal2jd has called its engine, days_in_complete_years was
\* called with start_year <= end_year and end_year - start_year <= 399.
\* Whenever alternate_iauJd2cal has converted a Julian Date, the year loop
\* of the engine it called left through its break, with an index below 400
\* and the target within the resolved year (start <= target < end), and so
\* did the month loop, with an index in 1..12; the year and the month the
\* loops left are those returned.
C16_LoopsWithinOneCycle ==
  /\ (CalDone /\ fwd = "alternate" /\ j # -2)
       => \A c \in {alternate_cal2jd_years_call(iy)} :
            /\ c.start_year <= c.end_year
            /\ c.end_year - c.start_year <= FULL_CYCLE_YEARS - 1
  /\ (JdDone /\ rev = "alternate" /\ status = 0)
       => \A t \in {locals} :
            LET yl == t.yl
                ml == t.ml
                len == Dbl(year_len(yl.year))
            IN  /\ yl.left /\ yl.remainder_year_idx < FULL_CYCLE_YEARS
                /\ IF t.neg
                     THEN /\ DLe(DSub(yl.temp_target, len), yl.target)
                          /\ DLt(yl.target, yl.temp_target)
                     ELSE /\ DLe(yl.temp_target, yl.target)
                          /\ DLt(yl.target, DAdd(yl.temp_target, len))
                /\ ml.left /\ ml.month_idx \in 1..12
                /\ yl.year = result_y /\ ml.month = result_m

\* The reverse engine's year loop went through the whole cycle below a
\* cycle boundary and broke at its last index, 399, in the negative branch.
C16_Witness ==
  /\ JdDone /\ rev = "alternate" /\ status = 0
  /\ locals.neg /\ locals.yl.remainder_year_idx = FULL_CYCLE_YEARS - 1

\* The forward engine counted the 399 remainder years of year 399.
C16_WitnessCall ==
  /\ CalDone /\ fwd = "alternate" /\ j = 0 /\ iy = 399
  /\ \A c \in {alternate_cal2jd_years_call(iy)} :
       c.end_year - c.start_year = FULL_CYCLE_YEARS - 1

\* -------------------------------------------------------------------- C17
\* Days from the start of a cycle to the start of its k-th year.
CycleDaysToYear == [k \in 0..400 |-> SumYearLen(0, k)]

C17_WitnessTwoAdvances ==
  /\ JdDone /\ rev = "terse" /\ status = 0
  /\ locals.more_years > 0 /\ locals.yl.more = 2

C18_WitnessYear0 ==
  /\ JdDone /\ rev = "terse" /\ status = 0
  /\ DAdd(dj1, dj2) = <<1721059, Den \div 2>>
  /\ <<result_y, result_m, result_d>> = <<0, 1, 1>> /\ result_fd = Dbl(0)

====
